---- MODULE Spec2Model ----
(***************************************************************************)
(* State-machine model of the IDM React client:                            *)
(*   - the PKCE authentication client (customAuthService.ts), the Callback *)
(*     component that drives it and the AuthProvider / ApiService callers  *)
(*     of removeUser;                                                      *)
(*   - the logging library (Logger, FluentdHandler, ConsoleHandler in      *)
(*     logger.ts) with its batched log shipper.                            *)
(* The two subsystems share no state.  AuthSpec and StorageSpec run the    *)
(* authentication client; LogSpec and LogLiveSpec run the singleton logger *)
(* (the latter with a timer that never stops), LoggerSpec adds the loggers *)
(* derived by withAttrs and HandlerSpec a caller-supplied handler.         *)
(***************************************************************************)
EXTENDS Integers, Sequences, FiniteSets, Bags, TLC

VARIABLES
    \* ---- browser storage ----
    localStorage,       \* localStorage['auth_user']: None or Some(JSON text)
    ssVerifier,         \* sessionStorage['pkce_code_verifier'] (Null when absent)
    ssState,            \* sessionStorage['pkce_state'] (Null when absent)
    \* ---- CustomAuthService instance (rebuilt on every page load) ----
    user,               \* this.user: None or Some(AuthUser)
    codeVerifier,       \* this.codeVerifier
    parseError,         \* the constructor caught a JSON.parse error (console.error)
    apiCall,            \* the CRUD API call of this page load: request headers, outcome
    \* ---- browser location ----
    page,               \* which page the user agent shows
    url,                \* query parameters of window.location.search
    authUrl,            \* parameters of the authorization URL last navigated to
    \* ---- signinRedirect in progress ----
    loginPc,            \* "idle" | "hashing" (suspended at an await)
    loginLocals,        \* its locals codeVerifier / state read from sessionStorage
    \* ---- Callback component ----
    handledRef,         \* handledRef.current
    effectPending,      \* the useEffect body is scheduled to run
    reruns,             \* dependency changes of the effect so far (bounded)
    ignored,            \* handleCallback invocations that returned at the guard
    calls,              \* signinRedirectCallback invocations of this page load
    pendingNav,         \* the 3 s timer that navigates to /login is armed
    \* ---- history (ghost) ----
    exchanged,          \* a code exchange succeeded since the last logout/clear
    handledOk,          \* callback URLs handled successfully since the last beginLogin
    lastResponse,       \* the token endpoint's last answer
    lastOp,             \* name of the operation that took the last step
    pairReused,         \* the last beginLogin reused the stored verifier and state
    \* ---- log shipper ----
    handlers,           \* the handlers array shared by all loggers (handler kinds)
    loggers,            \* Logger objects: the singleton and those made by withAttrs
    logQueue,           \* logQueue[h]: FluentdHandler.logQueue of handler h
    lastLog,            \* the logger of the last log call and how the call ended
    inflight,           \* batches whose POST has not settled yet
    settled,            \* batches whose POST settled, with the outcome
    consoleOut,         \* console output: a bag of console entries
    logCount,           \* log calls so far (record ids)
    timerFlushes,       \* timer ticks that found a record queued (bounded)
    \* ---- generateRandomString in progress ----
    gen                 \* what is generated, the requested length, the characters so far

authVars == <<localStorage, ssVerifier, ssState, user, codeVerifier, parseError, apiCall,
              page, url,
              authUrl, loginPc, loginLocals, handledRef, effectPending, reruns,
              ignored, calls, pendingNav, exchanged, handledOk, lastResponse,
              lastOp, pairReused>>
logVars == <<handlers, loggers, logQueue, lastLog, inflight, settled, consoleOut,
            logCount, timerFlushes>>
genVars == <<gen>>
nonAuthVars == <<logVars, genVars>>
nonLogVars == <<authVars, genVars>>
vars == <<authVars, logVars, genVars>>

(***************************************************************************)
(* Bounds of the model.                                                    *)
(***************************************************************************)
MaxReruns == 2
MaxLogs == 11
MaxTimerFlushes == 2
MaxWithAttrs == 2
MaxLoggerLogs == 2
MaxHandlerLogs == 3
MaxLiveLogs == 3

(***************************************************************************)
(* JavaScript values.                                                      *)
(***************************************************************************)
Null == "<null>"
Undefined == "<undefined>"
None == <<>>
Some(x) == <<x>>

\* JavaScript truthiness of a string-or-null value: if (x) ...
Truthy(x) == x # Null /\ x # Undefined /\ x # ""

(***************************************************************************)
(* Input domains.                                                          *)
(***************************************************************************)
StateTokens == {"s1", "s2"}
Verifiers == {"v1", "v2"}
CodeParams == {Null, "", "c1"}
StateParams == {Null, ""} \cup StateTokens
ErrorParams == {Null, "", "access_denied"}
AccessTokens == {"tok1", "", Undefined}

\* URLSearchParams.get of the three parameters the callback reads
CallbackUrls == [code : CodeParams, state : StateParams, error : ErrorParams]
NoParams == [code |-> Null, state |-> Null, error |-> Null]

AuthUserFields == {"id", "email", "access_token", "token_type", "expires_in", "scope"}
OptionalFields == {"access_token"}
TokenBodies ==
    {[id |-> "u1", email |-> "u1@example.org", access_token |-> t,
      token_type |-> "Bearer", expires_in |-> 3600, scope |-> "openid"] :
        t \in AccessTokens}

\* HTTP answers of the token endpoint; status 0 stands for a rejected fetch
ErrorFields == {"invalid_grant", "", Undefined}
TokenResponses ==
    {[status |-> 200, body |-> Some(b), error |-> Undefined] : b \in TokenBodies}
    \cup {[status |-> s, body |-> None, error |-> e] : s \in {400, 500}, e \in ErrorFields}
    \cup {[status |-> 0, body |-> None, error |-> Undefined]}

AppPages == {"login", "callback", "dashboard"}

\* no CRUD API call was made since the page was loaded
NoCall == [pc |-> "none", authorization |-> None, status |-> 0, error |-> None]
\* HTTP answers to a CRUD API call; status 0 stands for a request without answer
ApiStatuses == {200, 401, 404, 500, 0}

(***************************************************************************)
(* JSON.stringify / JSON.parse of an AuthUser.                             *)
(***************************************************************************)
\* mutant: the scope is not written
StringifyOmitsScope(u) ==
    [k \in {f \in DOMAIN u : f # "scope" /\ (f \notin OptionalFields \/ u[f] # Undefined)}
        |-> u[k]]

\* stringify keeps only the properties whose value is not undefined
Stringify(u) ==
    [k \in {f \in DOMAIN u : f \notin OptionalFields \/ u[f] # Undefined} |-> u[k]]

\* reading a property the parsed object lacks yields undefined
Parse(text) ==
    [k \in AuthUserFields |-> IF k \in DOMAIN text THEN text[k] ELSE Undefined]

\* a stored text that JSON.parse rejects is modelled as a record with the one
\* field "unparseable"
CorruptEntries == {[unparseable |-> "{\"id\":"]}
Parseable(text) == "unparseable" \notin DOMAIN text

\* constructor: hydrate this.user from localStorage['auth_user']; a text that
\* does not parse leaves this.user null (lines 122-127)
Constructor(stored) ==
    IF stored = None \/ ~Parseable(stored[1]) THEN None ELSE Some(Parse(stored[1]))

\* mutant: the catch block leaves the entry in place
ConstructorStorageKeeps(stored) == stored

\* constructor lines 124-127: the catch block removes an entry that does not parse
ConstructorStorage(stored) ==
    IF stored # None /\ ~Parseable(stored[1]) THEN None ELSE stored

(***************************************************************************)
(* PKCE helpers.                                                           *)
(***************************************************************************)
\* generatePKCE line 145: this.generateRandomString(128)
VerifierLength == 128
\* generateState line 158: this.generateRandomString(32)
StateLength == 32

\* mutant: a charset that holds + and / in place of _ and ~
CharsetBase64 ==
    <<"A", "B", "C", "D", "E", "F", "G", "H", "I", "J", "K", "L", "M",
      "N", "O", "P", "Q", "R", "S", "T", "U", "V", "W", "X", "Y", "Z",
      "a", "b", "c", "d", "e", "f", "g", "h", "i", "j", "k", "l", "m",
      "n", "o", "p", "q", "r", "s", "t", "u", "v", "w", "x", "y", "z",
      "0", "1", "2", "3", "4", "5", "6", "7", "8", "9", "+", "/", "-",
      ".">>

\* generateRandomString line 133: the charset, one character per element
Charset ==
    <<"A", "B", "C", "D", "E", "F", "G", "H", "I", "J", "K", "L", "M",
      "N", "O", "P", "Q", "R", "S", "T", "U", "V", "W", "X", "Y", "Z",
      "a", "b", "c", "d", "e", "f", "g", "h", "i", "j", "k", "l", "m",
      "n", "o", "p", "q", "r", "s", "t", "u", "v", "w", "x", "y", "z",
      "0", "1", "2", "3", "4", "5", "6", "7", "8", "9", "-", ".", "_",
      "~">>

\* the values of one element of the Uint8Array that crypto.getRandomValues fills
RandomBytes == 0..255

\* line 138: charset[randomValues[i] % charset.length] (JavaScript indexes from 0)
CharAt(byte) == Charset[(byte % Len(Charset)) + 1]

\* no generateRandomString call is running
NoGen == [what |-> "none", length |-> 0, len |-> 0, char |-> "", pc |-> "idle"]

\* lines 146-150 and 171-175: btoa of the SHA-256 digest of the verifier, one
\* character per element; the digest is shortened to a few characters, which
\* differ for the verifiers of the domain and hold +, / and the = padding
Sha256Base64(v) ==
    CASE v = "v1" -> <<"q", "+", "/", "B", "3", "=">>
      [] v = "v2" -> <<"Z", "/", "+", "+", "w", "=">>
      [] OTHER -> <<"4", "7", "D", "E", "Q", "=">>

\* String.prototype.replace with a global pattern of one character
ReplaceAll(str, from, to) == [i \in DOMAIN str |-> IF str[i] = from THEN to ELSE str[i]]

\* replace(/=+$/, ''): the run of = at the end is removed
RECURSIVE StripPadding(_)
StripPadding(str) ==
    IF str # <<>> /\ str[Len(str)] = "="
    THEN StripPadding(SubSeq(str, 1, Len(str) - 1))
    ELSE str

\* the characters as one string
RECURSIVE Join(_)
Join(str) == IF str = <<>> THEN "" ELSE Head(str) \o Join(Tail(str))

\* mutant: the base64 text is used as it is
ChallengePlainBase64(v) == Join(Sha256Base64(v))

\* lines 151 and 176: the code challenge of a verifier
Challenge(v) ==
    Join(StripPadding(ReplaceAll(ReplaceAll(Sha256Base64(v), "+", "-"), "/", "_")))

Err(m, a) == [msg |-> m, arg |-> a]
NoErr == Err(Null, Null)

(***************************************************************************)
(* CustomAuthService.signinRedirectCallback, up to its first await.        *)
(***************************************************************************)
\* mutant: the state comparison of lines 229-231 is left out
ValidateCallbackSkipsState(u, storedState, storedVerifier) ==
    IF Truthy(u.error) THEN Err("Authorization error", u.error)
    ELSE IF ~Truthy(u.code) THEN Err("No authorization code received", Null)
    ELSE IF ~Truthy(storedVerifier) THEN Err("No code verifier found", Null)
    ELSE NoErr

\* mutant: the code is looked at before the error parameter
ValidateCallbackCodeFirst(u, storedState, storedVerifier) ==
    IF ~Truthy(u.code) THEN Err("No authorization code received", Null)
    ELSE IF Truthy(u.error) THEN Err("Authorization error", u.error)
    ELSE IF u.state # storedState THEN Err("Invalid state parameter", Null)
    ELSE IF ~Truthy(storedVerifier) THEN Err("No code verifier found", Null)
    ELSE NoErr

\* mutant: the verifier check of lines 236-238 is left out
ValidateCallbackSkipsVerifier(u, storedState, storedVerifier) ==
    IF Truthy(u.error) THEN Err("Authorization error", u.error)
    ELSE IF ~Truthy(u.code) THEN Err("No authorization code received", Null)
    ELSE IF u.state # storedState THEN Err("Invalid state parameter", Null)
    ELSE NoErr

\* the checks of lines 218-238, in the code's order; NoErr when all pass
ValidateCallback(u, storedState, storedVerifier) ==
    IF Truthy(u.error) THEN Err("Authorization error", u.error)
    ELSE IF ~Truthy(u.code) THEN Err("No authorization code received", Null)
    ELSE IF u.state # storedState THEN Err("Invalid state parameter", Null)
    ELSE IF ~Truthy(storedVerifier) THEN Err("No code verifier found", Null)
    ELSE NoErr

\* one invocation: it either throws synchronously-in-promise (pc "rejected")
\* or has sent the token request and waits for the answer (pc "awaiting")
StartCall(u, storedState, storedVerifier) ==
    LET e == ValidateCallback(u, storedState, storedVerifier) IN
    [pc |-> IF e = NoErr THEN "awaiting" ELSE "rejected",
     url |-> u,
     requested |-> (e = NoErr),
     code |-> IF e = NoErr THEN u.code ELSE Null,
     code_verifier |-> IF e = NoErr THEN storedVerifier ELSE Null,
     snapState |-> storedState,
     snapVerifier |-> storedVerifier,
     userBefore |-> user,
     storedBefore |-> localStorage,
     result |-> None,
     error |-> e]

\* mutant: the server's error field is dropped from the thrown error
ExchangeErrorGeneric(r) ==
    IF r.status = 0 THEN Err("Failed to fetch", Null)
    ELSE IF ~(r.status \in 200..299) THEN Err("Token exchange failed", Null)
    ELSE NoErr

\* exchangeCodeForToken after fetch settled: the error it throws, NoErr on success
ExchangeError(r) ==
    IF r.status = 0 THEN Err("Failed to fetch", Null)
    ELSE IF ~(r.status \in 200..299)
         THEN Err(IF Truthy(r.error) THEN r.error ELSE "Token exchange failed", Null)
         ELSE NoErr

\* a microtask (the continuation of a settled signinRedirectCallback) runs
\* before any other event is dispatched
MicrotaskPending == \E i \in DOMAIN calls : calls[i].pc \in {"resolved", "rejected"}

(***************************************************************************)
(* Page loads: every full navigation into the app rebuilds the service.    *)
(***************************************************************************)
PageLoad(p, u) ==
    /\ page' = p
    /\ apiCall' = NoCall
    /\ url' = u
    /\ user' = Constructor(localStorage)
    /\ localStorage' = ConstructorStorage(localStorage)
    /\ parseError' = (localStorage # None /\ ~Parseable(localStorage[1]))
    /\ codeVerifier' = Null
    /\ loginPc' = "idle"
    /\ loginLocals' = [codeVerifier |-> Null, state |-> Null]
    /\ handledRef' = FALSE
    /\ effectPending' = (p = "callback")
    /\ reruns' = 0
    /\ ignored' = 0
    /\ calls' = <<>>
    /\ pendingNav' = FALSE

\* the user agent leaves the app for an external page: the script context ends
LeaveApp(p) ==
    /\ page' = p
    /\ apiCall' = NoCall
    /\ url' = NoParams
    /\ loginPc' = "idle"
    /\ loginLocals' = [codeVerifier |-> Null, state |-> Null]
    /\ handledRef' = FALSE
    /\ effectPending' = FALSE
    /\ reruns' = 0
    /\ ignored' = 0
    /\ calls' = <<>>
    /\ pendingNav' = FALSE

\* the authorization server redirects back, or the user opens a callback URL
\* (a stale link, the back button, a forged link)
OpenCallback(u) ==
    /\ lastOp' = "openCallback"
    /\ ~MicrotaskPending
    /\ PageLoad("callback", u)
    /\ UNCHANGED <<ssVerifier, ssState, authUrl, exchanged, handledOk,
                   lastResponse, pairReused>>
    /\ UNCHANGED nonAuthVars

\* the user opens or reloads /login or /dashboard
OpenPage(p) ==
    /\ lastOp' = "openPage"
    /\ ~MicrotaskPending
    /\ PageLoad(p, NoParams)
    /\ UNCHANGED <<ssVerifier, ssState, authUrl, exchanged, handledOk,
                   lastResponse, pairReused>>
    /\ UNCHANGED nonAuthVars

(***************************************************************************)
(* CustomAuthService.signinRedirect (beginLogin).                          *)
(***************************************************************************)
\* lines 166-167: read the stored pair, then suspend at the first await
BeginLoginStart ==
    /\ lastOp' = "beginLoginStart"
    /\ ~MicrotaskPending
    /\ page = "login"
    /\ loginPc = "idle"
    /\ loginPc' = "hashing"
    /\ loginLocals' = [codeVerifier |-> ssVerifier, state |-> ssState]
    /\ UNCHANGED <<localStorage, ssVerifier, ssState, user, codeVerifier, page, url,
                   authUrl, handledRef, effectPending, reruns, ignored, calls,
                   pendingNav, exchanged, handledOk, lastResponse, pairReused>>
    /\ UNCHANGED <<parseError, apiCall, nonAuthVars>>

\* mutant: a new pair is generated on every login
NeedsFreshPairAlways(v, s, challenge) == TRUE

\* line 179: whether a new pair has to be generated
NeedsFreshPair(v, s, challenge) == ~Truthy(v) \/ ~Truthy(s) \/ ~Truthy(challenge)

\* lines 169-201: after the awaits, store a fresh pair if needed and navigate
BeginLoginFinish ==
    /\ lastOp' = "beginLogin"
    /\ ~MicrotaskPending
    /\ loginPc = "hashing"
    /\ LET v == loginLocals.codeVerifier
           s == loginLocals.state
           c == IF Truthy(v) /\ Truthy(s) THEN Challenge(v) ELSE Null
       IN IF NeedsFreshPair(v, s, c)
          THEN \E nv \in Verifiers, ns \in StateTokens :
                  /\ ssVerifier' = nv
                  /\ ssState' = ns
                  /\ codeVerifier' = nv
                  /\ authUrl' = [state |-> ns, code_challenge |-> Challenge(nv)]
                  /\ handledOk' = {}
                  /\ pairReused' = FALSE
          ELSE /\ UNCHANGED <<ssVerifier, ssState, handledOk>>
               /\ pairReused' = TRUE
               /\ codeVerifier' = v
               /\ authUrl' = [state |-> s, code_challenge |-> c]
    /\ LeaveApp("authorize")
    /\ UNCHANGED <<localStorage, user, exchanged, lastResponse>>
    /\ UNCHANGED <<parseError, nonAuthVars>>

(***************************************************************************)
(* Callback component (Callback.tsx).                                      *)
(***************************************************************************)
\* mutant: the guard never fires
AlreadyHandledNever(ref) == FALSE

\* line 14: the re-entry guard
AlreadyHandled(ref) == ref

\* lines 13-17: the effect body runs handleCallback
HandleCallback ==
    /\ lastOp' = "handleCallback"
    /\ ~MicrotaskPending
    /\ page = "callback"
    /\ effectPending
    /\ effectPending' = FALSE
    /\ IF AlreadyHandled(handledRef)
       THEN /\ ignored' = ignored + 1
            /\ UNCHANGED <<handledRef, calls>>
       ELSE /\ handledRef' = TRUE
            /\ calls' = Append(calls, StartCall(url, ssState, ssVerifier))
            /\ UNCHANGED ignored
    /\ UNCHANGED <<localStorage, ssVerifier, ssState, user, codeVerifier, page, url,
                   authUrl, loginPc, loginLocals, reruns, pendingNav, exchanged,
                   handledOk, lastResponse, pairReused>>
    /\ UNCHANGED <<parseError, apiCall, nonAuthVars>>

\* lines 31-32: AuthProvider re-rendered, clearUser is a new function, so the
\* effect's cleanup runs and the effect is scheduled again
EffectRerun ==
    /\ lastOp' = "effectRerun"
    /\ ~MicrotaskPending
    /\ page = "callback"
    /\ ~effectPending
    /\ reruns < MaxReruns
    /\ reruns' = reruns + 1
    /\ handledRef' = TRUE
    /\ effectPending' = TRUE
    /\ UNCHANGED <<localStorage, ssVerifier, ssState, user, codeVerifier, page, url,
                   authUrl, loginPc, loginLocals, ignored, calls, pendingNav,
                   exchanged, handledOk, lastResponse, pairReused>>
    /\ UNCHANGED <<parseError, apiCall, nonAuthVars>>

\* mutant: removeUser leaves the stored verifier and state
RemoveUserKeepsPair ==
    /\ user' = None
    /\ localStorage' = None
    /\ UNCHANGED <<ssVerifier, ssState>>

\* mutant: the durable entry survives removeUser
RemoveUserKeepsStorage ==
    /\ user' = None
    /\ UNCHANGED localStorage
    /\ ssVerifier' = Null
    /\ ssState' = Null

\* removeUser, lines 320-325
RemoveUser ==
    /\ user' = None
    /\ localStorage' = None
    /\ ssVerifier' = Null
    /\ ssState' = Null

\* signinRedirectCallback lines 244-245: keep the session in memory and on disk
StoreUser(tokenResponse) ==
    /\ user' = Some(tokenResponse)
    /\ localStorage' = Some(Stringify(tokenResponse))

\* mutant: only the verifier is removed
CleanUpVerifierOnly ==
    /\ ssVerifier' = Null
    /\ UNCHANGED ssState

\* signinRedirectCallback lines 248-249
CleanUpSessionStorage ==
    /\ ssVerifier' = Null
    /\ ssState' = Null

\* signinRedirectCallback lines 241-255, resumed with the token endpoint's answer
TokenRespond(i, r) ==
    /\ ~MicrotaskPending
    /\ calls[i].pc = "awaiting"
    /\ lastResponse' = Some(r)
    /\ LET e == ExchangeError(r) IN
       IF e = NoErr
       THEN /\ StoreUser(r.body[1])
            /\ CleanUpSessionStorage
            /\ calls' = [calls EXCEPT ![i].pc = "resolved", ![i].result = r.body]
            /\ lastOp' = "completeLoginOk"
            /\ exchanged' = TRUE
            /\ handledOk' = handledOk \cup {url}
       ELSE /\ calls' = [calls EXCEPT ![i].pc = "rejected", ![i].error = e]
            /\ lastOp' = "completeLoginErr"
            /\ UNCHANGED <<user, localStorage, ssVerifier, ssState, exchanged, handledOk>>
    /\ UNCHANGED <<codeVerifier, page, url, authUrl, loginPc, loginLocals, handledRef,
                   effectPending, reruns, ignored, pendingNav,
                   pairReused>>
    /\ UNCHANGED <<parseError, apiCall, nonAuthVars>>

\* Callback.tsx lines 18-20: success, go to /dashboard (a full page load)
CallbackSucceeded(i) ==
    /\ lastOp' = "callbackSucceeded"
    /\ calls[i].pc = "resolved"
    /\ PageLoad("dashboard", NoParams)
    /\ UNCHANGED <<ssVerifier, ssState, authUrl, exchanged, handledOk,
                   lastResponse, pairReused>>
    /\ UNCHANGED nonAuthVars

\* mutant: the catch block arms the /login timer without calling clearUser()
CallbackFailedKeepsAll(i) ==
    /\ lastOp' = "clearSession"
    /\ calls[i].pc = "rejected"
    /\ calls' = [calls EXCEPT ![i].pc = "failed"]
    /\ pendingNav' = TRUE
    /\ UNCHANGED <<localStorage, ssVerifier, ssState, user, exchanged>>
    /\ UNCHANGED <<codeVerifier, page, url, authUrl, loginPc, loginLocals, handledRef,
                   effectPending, reruns, ignored, handledOk, lastResponse, pairReused>>
    /\ UNCHANGED <<parseError, apiCall, nonAuthVars>>

\* Callback.tsx lines 21-28: failure, clearUser() and arm the /login timer
CallbackFailed(i) ==
    /\ lastOp' = "clearSession"
    /\ calls[i].pc = "rejected"
    /\ calls' = [calls EXCEPT ![i].pc = "failed"]
    /\ RemoveUser
    /\ exchanged' = FALSE
    /\ pendingNav' = TRUE
    /\ UNCHANGED <<codeVerifier, page, url, authUrl, loginPc, loginLocals, handledRef,
                   effectPending, reruns, ignored, handledOk, lastResponse, pairReused>>
    /\ UNCHANGED <<parseError, apiCall, nonAuthVars>>

\* Callback.tsx lines 25-27: navigate('/login'), a client-side route change that
\* unmounts the Callback component (its cleanup runs, its promises are done)
NavigateLogin ==
    /\ lastOp' = "navigateLogin"
    /\ ~MicrotaskPending
    /\ pendingNav
    /\ pendingNav' = FALSE
    /\ page' = "login"
    /\ url' = NoParams
    /\ effectPending' = FALSE
    /\ handledRef' = TRUE
    /\ calls' = <<>>
    /\ UNCHANGED <<localStorage, ssVerifier, ssState, user, codeVerifier, authUrl,
                   loginPc, loginLocals, reruns, ignored, exchanged, handledOk,
                   lastResponse, pairReused>>
    /\ UNCHANGED <<parseError, apiCall, nonAuthVars>>

(***************************************************************************)
(* logout and clearSession.                                                *)
(***************************************************************************)
\* signoutRedirect, lines 309-317
SignoutRedirect ==
    /\ lastOp' = "logout"
    /\ ~MicrotaskPending
    /\ page \in AppPages
    /\ user' = None
    /\ localStorage' = None
    /\ ssVerifier' = Null
    /\ ssState' = Null
    /\ exchanged' = FALSE
    /\ codeVerifier' = Null
    /\ LeaveApp("logout")
    /\ UNCHANGED <<authUrl, handledOk, lastResponse, pairReused>>
    /\ UNCHANGED <<parseError, nonAuthVars>>

\* mutant: the interceptor redirects without removeUser()
OnUnauthorizedKeepsSession ==
    /\ UNCHANGED <<localStorage, ssVerifier, ssState, exchanged>>
    /\ page' = "login"
    /\ url' = NoParams
    /\ user' = Constructor(localStorage)
    /\ codeVerifier' = Null
    /\ loginPc' = "idle"
    /\ loginLocals' = [codeVerifier |-> Null, state |-> Null]
    /\ handledRef' = FALSE
    /\ effectPending' = FALSE
    /\ reruns' = 0
    /\ ignored' = 0
    /\ calls' = <<>>
    /\ pendingNav' = FALSE
    /\ parseError' = FALSE

\* apiService.ts lines 95-98: removeUser(), then window.location.href =
\* '/login' loads the login page, whose service instance finds no entry
OnUnauthorized ==
    /\ localStorage' = None
    /\ ssVerifier' = Null
    /\ ssState' = Null
    /\ exchanged' = FALSE
    /\ page' = "login"
    /\ url' = NoParams
    /\ user' = None
    /\ codeVerifier' = Null
    /\ loginPc' = "idle"
    /\ loginLocals' = [codeVerifier |-> Null, state |-> Null]
    /\ handledRef' = FALSE
    /\ effectPending' = FALSE
    /\ reruns' = 0
    /\ ignored' = 0
    /\ calls' = <<>>
    /\ pendingNav' = FALSE
    /\ parseError' = FALSE

\* apiService.ts lines 94-99: a 401 answer clears the session and reloads /login
ApiUnauthorized ==
    /\ lastOp' = "clearSession401"
    /\ ~MicrotaskPending
    /\ page \in AppPages
    /\ OnUnauthorized
    /\ apiCall' = NoCall
    /\ UNCHANGED <<authUrl, handledOk, lastResponse, pairReused>>
    /\ UNCHANGED nonAuthVars

\* getUser, isAuthenticated, getAccessToken (lines 294-306)
GetUser == user
IsAuthenticated == user # None /\ user[1].access_token # Null
GetAccessToken ==
    IF user # None /\ Truthy(user[1].access_token) THEN user[1].access_token ELSE Null

(***************************************************************************)
(* Batched log shipper: Logger -> FluentdHandler (logger.ts), as built in  *)
(* a production environment (handlers: FluentdHandler, ConsoleHandler).    *)
(* Every Logger made by withAttrs shares one handlers array with the       *)
(* logger it was derived from; the array holds the handler kinds in push   *)
(* order and logQueue[h] is the queue of the FluentdHandler at position h. *)
(***************************************************************************)
\* FluentdHandler constructor, line 234
batchSize == 10

Levels == {"DEBUG", "INFO", "WARN", "ERROR"}
LevelOf(id) ==
    CASE id % 4 = 0 -> "DEBUG"
      [] id % 4 = 1 -> "INFO"
      [] id % 4 = 2 -> "WARN"
      [] OTHER -> "ERROR"
\* the level of the first call is arbitrary, later calls cycle through the levels
LevelChoices(id) == IF id = 1 THEN Levels ELSE {LevelOf(id)}
MsgOf(id) == IF id % 2 = 0 THEN "saved" ELSE "loaded"

\* attribute objects are sets of <<key, value>> pairs
NoAttrs == {}
\* attributes bound by withAttrs (useLogger binds the component name)
BoundAttrs == {{<<"component", "Users">>}, {<<"requestId", "r1">>}}
\* attributes passed to one log call
CallAttrs == {NoAttrs, {<<"component", "Inline">>}}

\* object spread {...a, ...b}: the keys of b win
Spread(a, b) == b \cup {p \in a : \A q \in b : q[1] # p[1]}

\* how a POST settles: an HTTP status, a network error, or the 3 s abort
PostOutcomes ==
    {[kind |-> "response", status |-> st] : st \in {200, 204, 404, 500}}
    \cup {[kind |-> "network-error", status |-> 0], [kind |-> "timeout", status |-> 0]}

\* ConsoleHandler.handle, lines 201-221: the console method follows the level,
\* the text is "[time] LEVEL: msg"
ConsoleEntry(rec, via) ==
    [method |-> CASE rec.level = "DEBUG" -> "debug"
                  [] rec.level = "INFO" -> "info"
                  [] rec.level = "WARN" -> "warn"
                  [] OTHER -> "error",
     level |-> rec.level, msg |-> rec.msg, id |-> rec.id, via |-> via]

\* console.warn('Failed to send logs to Fluentd:', error), line 265
FailedToSendWarning ==
    [method |-> "warn", level |-> Null, msg |-> "Failed to send logs to Fluentd",
     id |-> 0, via |-> "warning"]

\* console.error('Handler error:', error), line 321
HandlerErrorEntry ==
    [method |-> "error", level |-> Null, msg |-> "Handler error",
     id |-> 0, via |-> "handler-error"]

Records(batch) == {batch[k] : k \in DOMAIN batch}

\* Logger constructor lines 287-303: the default handlers are pushed into
\* the array the caller passed, not into a copy of it
LoggerConstructor(given) == given \o <<"fluentd", "console">>

\* positions of the handlers of one kind in the shared array
HandlersOf(kind) == {h \in DOMAIN handlers : handlers[h] = kind}

\* mutant: the batch is sent but the queue is not reset
FlushBatchKeepsQueue(queue) ==
    IF Len(queue) = 0
    THEN [logQueue |-> queue, logsToSend |-> <<>>]
    ELSE [logQueue |-> queue, logsToSend |-> queue]

\* mutant: the queue is reset as if its last record had been pushed between
\* the copy and the reset
FlushBatchLosesLate(queue) ==
    IF Len(queue) = 0
    THEN [logQueue |-> queue, logsToSend |-> <<>>]
    ELSE [logQueue |-> <<>>, logsToSend |-> SubSeq(queue, 1, Len(queue) - 1)]

\* flushBatch lines 249-262: nothing to do on an empty queue, else take the
\* queue, reset it and start the POST of what was taken
FlushBatch(queue) ==
    IF Len(queue) = 0
    THEN [logQueue |-> queue, logsToSend |-> <<>>]
    ELSE [logQueue |-> <<>>, logsToSend |-> queue]

\* mutant: the record is put at the head of the queue
HandleUnshifts(queue, record) ==
    LET pushed == <<record>> \o queue IN
    IF Len(pushed) >= batchSize
    THEN FlushBatch(pushed)
    ELSE [logQueue |-> pushed, logsToSend |-> <<>>]

\* mutant: the flush starts only when the queue exceeds the batch size
HandleFlushesLate(queue, record) ==
    LET pushed == Append(queue, record) IN
    IF Len(pushed) > batchSize
    THEN FlushBatch(pushed)
    ELSE [logQueue |-> pushed, logsToSend |-> <<>>]

\* mutant: the record is queued and the size of the queue is never looked at
HandleNeverFlushes(queue, record) ==
    [logQueue |-> Append(queue, record), logsToSend |-> <<>>]

\* FluentdHandler.handle lines 240-246
Handle(queue, record) ==
    LET pushed == Append(queue, record) IN
    IF Len(pushed) >= batchSize
    THEN FlushBatch(pushed)
    ELSE [logQueue |-> pushed, logsToSend |-> <<>>]

\* batches handler h has drained so far
Drained(h) == {b \in inflight : b.h = h} \cup
              {[h |-> s.h, n |-> s.n, batch |-> s.batch] : s \in {t \in settled : t.h = h}}

\* the fetch of line 254 for what handler h just took off its queue; n is the
\* position of the batch in the drain order of h
StartPost(h, logsToSend) ==
    IF logsToSend = <<>> THEN {}
    ELSE {[h |-> h, n |-> Cardinality(Drained(h)) + 1, batch |-> logsToSend]}

\* mutant: no outcome of the POST reaches the catch block
FetchRejectsNever(outcome) == FALSE

\* mutant: handler.handle is called without the try/catch
LogCompletionUncaught(handlerThrew) == IF handlerThrew THEN "threw" ELSE "returned"

\* Logger.log lines 317-323: each handler.handle runs inside its own
\* try/catch, so a throwing handler ends neither the loop nor the call
LogCompletion(handlerThrew) == "returned"

\* Logger.log lines 305-324 called on logger l (for a derived logger through
\* the override of lines 399-402): build the record, hand it to every handler
\* of the array; handlerThrew says whether the caller-supplied handler throws
LogVia(l, logAttrs, handlerThrew) ==
    /\ handlerThrew => HandlersOf("custom") # {}
    /\ logCount' = logCount + 1
    /\ \E lvl \in LevelChoices(logCount + 1) :
          LET record == [id |-> logCount + 1, level |-> lvl, msg |-> MsgOf(logCount + 1),
                         attrs |-> Spread(loggers[l].attrs, logAttrs)]
              handled == [h \in DOMAIN handlers |->
                             IF handlers[h] = "fluentd"
                             THEN Handle(logQueue[h], record)
                             ELSE [logQueue |-> logQueue[h], logsToSend |-> <<>>]]
          IN /\ logQueue' = [h \in DOMAIN handlers |-> handled[h].logQueue]
             /\ inflight' = inflight \cup
                    UNION {StartPost(h, handled[h].logsToSend) : h \in DOMAIN handlers}
             /\ consoleOut' = consoleOut
                    (+) [e \in {ConsoleEntry(record, "handler")} |->
                            Cardinality(HandlersOf("console"))]
                    (+) (IF handlerThrew THEN SetToBag({HandlerErrorEntry}) ELSE EmptyBag)
    /\ lastLog' = [logger |-> l, result |-> LogCompletion(handlerThrew)]
    /\ UNCHANGED <<settled, timerFlushes, handlers, loggers>>
    /\ UNCHANGED nonLogVars

\* a log call on the exported singleton logger
Log ==
    /\ logCount < MaxLogs
    /\ LogVia(1, NoAttrs, FALSE)

\* withAttrs lines 392-405 called on logger l: new Logger(this.handlers)
\* pushes its default handlers into the array l uses; the override of log
\* wraps the new logger's own log and merges only the attributes given here
WithAttrs(l, attrs) ==
    /\ Len(loggers) <= MaxWithAttrs
    /\ handlers' = LoggerConstructor(handlers)
    /\ logQueue' = logQueue \o <<<<>>, <<>>>>
    /\ loggers' = Append(loggers, [attrs |-> attrs, parent |-> l])
    /\ UNCHANGED <<inflight, settled, consoleOut, logCount, timerFlushes, lastLog>>
    /\ UNCHANGED nonLogVars

\* the callback of setInterval, lines 274-276: this.flushBatch()
FlushOnTimer(h) ==
    LET flushed == FlushBatch(logQueue[h])
    IN /\ logQueue' = [logQueue EXCEPT ![h] = flushed.logQueue]
       /\ inflight' = inflight \cup StartPost(h, flushed.logsToSend)

\* startBatchProcessing lines 273-277: the interval timer of handler h fires
TimerFlush(h) ==
    /\ handlers[h] = "fluentd"
    /\ timerFlushes < MaxTimerFlushes
    /\ timerFlushes' = IF logQueue[h] = <<>> THEN timerFlushes ELSE timerFlushes + 1
    /\ FlushOnTimer(h)
    /\ UNCHANGED <<settled, consoleOut, logCount, handlers, loggers, lastLog>>
    /\ UNCHANGED nonLogVars

\* lines 254-270: fetch rejects on a network error or an abort and resolves on
\* every HTTP status; only a rejection reaches the catch block
FetchRejects(outcome) == outcome.kind \in {"network-error", "timeout"}

\* flushBatch lines 253-270: the await sits inside try/catch and the catch
\* block only prints, so the promise of flushBatch is fulfilled either way
FlushCompletion(outcome) == "fulfilled"

RECURSIVE FallbackEntries(_)
FallbackEntries(batch) ==
    IF batch = <<>> THEN EmptyBag
    ELSE SetToBag({ConsoleEntry(Head(batch), "fallback")}) (+) FallbackEntries(Tail(batch))

\* flushBatch resumed after the await
PostSettles(b, outcome) ==
    /\ b \in inflight
    /\ inflight' = inflight \ {b}
    /\ settled' = settled \cup {[h |-> b.h, n |-> b.n, batch |-> b.batch,
                                 outcome |-> outcome,
                                 promise |-> FlushCompletion(outcome)]}
    /\ IF FetchRejects(outcome)
       THEN consoleOut' = consoleOut (+) SetToBag({FailedToSendWarning})
                                     (+) FallbackEntries(b.batch)
       ELSE UNCHANGED consoleOut
    /\ UNCHANGED <<logQueue, logCount, timerFlushes, handlers, loggers, lastLog>>
    /\ UNCHANGED nonLogVars

\* the singleton logger of the application: one FluentdHandler, no withAttrs
LogNext ==
    \/ Log
    \/ \E h \in DOMAIN handlers : TimerFlush(h)
    \/ \E b \in inflight : \E o \in PostOutcomes : PostSettles(b, o)

(***************************************************************************)
(* Initial state and the specification of the authentication client.       *)
(***************************************************************************)
\* logger = new Logger(), line 409
LogInit ==
    /\ handlers = LoggerConstructor(<<>>)
    /\ loggers = <<[attrs |-> NoAttrs, parent |-> 0]>>
    /\ logQueue = <<<<>>, <<>>>>
    /\ lastLog = [logger |-> 0, result |-> "none"]
    /\ inflight = {}
    /\ settled = {}
    /\ consoleOut = EmptyBag
    /\ logCount = 0
    /\ timerFlushes = 0

AuthInit ==
    /\ localStorage = None
    /\ ssVerifier = Null
    /\ ssState = Null
    /\ user = None
    /\ codeVerifier = Null
    /\ parseError = FALSE
    /\ apiCall = NoCall
    /\ page = "login"
    /\ url = NoParams
    /\ authUrl = [state |-> Null, code_challenge |-> Null]
    /\ loginPc = "idle"
    /\ loginLocals = [codeVerifier |-> Null, state |-> Null]
    /\ handledRef = FALSE
    /\ effectPending = FALSE
    /\ reruns = 0
    /\ ignored = 0
    /\ calls = <<>>
    /\ pendingNav = FALSE
    /\ exchanged = FALSE
    /\ handledOk = {}
    /\ lastResponse = None
    /\ lastOp = "init"
    /\ pairReused = FALSE
    /\ gen = NoGen

Init == AuthInit /\ LogInit

AuthNext ==
    \/ \E u \in CallbackUrls : OpenCallback(u)
    \/ \E p \in {"login", "dashboard"} : OpenPage(p)
    \/ BeginLoginStart
    \/ BeginLoginFinish
    \/ HandleCallback
    \/ EffectRerun
    \/ \E i \in DOMAIN calls : \E r \in TokenResponses : TokenRespond(i, r)
    \/ \E i \in DOMAIN calls : CallbackSucceeded(i)
    \/ \E i \in DOMAIN calls : CallbackFailed(i)
    \/ NavigateLogin
    \/ SignoutRedirect
    \/ ApiUnauthorized

AuthSpec == Init /\ [][AuthNext]_vars

(***************************************************************************)
(* The authentication client started in a browser whose localStorage       *)
(* already holds an 'auth_user' entry that does not parse (or none): the   *)
(* app is not loaded yet, the first step loads one of its pages.           *)
(***************************************************************************)
StorageInit ==
    /\ localStorage \in {None} \cup {Some(c) : c \in CorruptEntries}
    /\ ssVerifier = Null
    /\ ssState = Null
    /\ user = None
    /\ codeVerifier = Null
    /\ parseError = FALSE
    /\ apiCall = NoCall
    /\ page = "closed"
    /\ url = NoParams
    /\ authUrl = [state |-> Null, code_challenge |-> Null]
    /\ loginPc = "idle"
    /\ loginLocals = [codeVerifier |-> Null, state |-> Null]
    /\ handledRef = FALSE
    /\ effectPending = FALSE
    /\ reruns = 0
    /\ ignored = 0
    /\ calls = <<>>
    /\ pendingNav = FALSE
    /\ exchanged = FALSE
    /\ handledOk = {}
    /\ lastResponse = None
    /\ lastOp = "init"
    /\ pairReused = FALSE
    /\ gen = NoGen
    /\ LogInit

StorageSpec == StorageInit /\ [][AuthNext]_vars

(***************************************************************************)
(* The CRUD API wrapper (apiService.ts) on top of the authentication       *)
(* client: one call at a time is sent through the axios instance and       *)
(* answered; a page load ends the call.                                    *)
(***************************************************************************)
\* mutant: the header is set whatever getAccessToken() returns
RequestHeadersAlways == Some(<<"Bearer", GetAccessToken>>)

\* request interceptor, lines 78-85: the Authorization header of a request
RequestHeaders ==
    IF Truthy(GetAccessToken) THEN Some(<<"Bearer", GetAccessToken>>) ELSE None

\* this.api.get / post / put / delete: the request leaves with its headers
ApiRequest ==
    /\ lastOp' = "apiRequest"
    /\ ~MicrotaskPending
    /\ page \in AppPages
    /\ apiCall.pc # "sent"
    /\ apiCall' = [pc |-> "sent", authorization |-> RequestHeaders, status |-> 0,
                   error |-> None]
    /\ UNCHANGED <<localStorage, ssVerifier, ssState, user, codeVerifier, parseError,
                   page, url, authUrl, loginPc, loginLocals, handledRef, effectPending,
                   reruns, ignored, calls, pendingNav, exchanged, handledOk, lastResponse,
                   pairReused>>
    /\ UNCHANGED nonAuthVars

\* response interceptor, lines 92-101, and the catch block of the calling
\* method (throw error): a 2xx answer resolves the call, everything else
\* rejects it with the error axios raised; a 401 first clears the session
\* and sends the user agent to /login
ApiRespond(st) ==
    /\ ~MicrotaskPending
    /\ apiCall.pc = "sent"
    /\ IF st = 200
       THEN apiCall' = [apiCall EXCEPT !.pc = "resolved", !.status = st]
       ELSE apiCall' = [apiCall EXCEPT !.pc = "rejected", !.status = st,
                                       !.error = Some([status |-> st])]
    /\ IF st = 401
       THEN /\ lastOp' = "clearSession401"
            /\ OnUnauthorized
       ELSE /\ lastOp' = "apiRespond"
            /\ UNCHANGED <<localStorage, ssVerifier, ssState, user, codeVerifier,
                           parseError, page, url, loginPc, loginLocals, handledRef,
                           effectPending, reruns, ignored, calls, pendingNav, exchanged>>
    /\ UNCHANGED <<authUrl, handledOk, lastResponse, pairReused>>
    /\ UNCHANGED nonAuthVars

\* the callbacks of the authorization server: a code with a state, or an error
ApiCallbackUrls ==
    {u \in CallbackUrls : (u.code = "c1" /\ u.state # Null /\ u.error = Null)
                             \/ (u.code = Null /\ u.error = "access_denied")}

ApiNext ==
    \/ \E u \in ApiCallbackUrls : OpenCallback(u)
    \/ \E p \in {"login", "dashboard"} : OpenPage(p)
    \/ BeginLoginStart
    \/ BeginLoginFinish
    \/ HandleCallback
    \/ \E i \in DOMAIN calls : \E r \in TokenResponses : TokenRespond(i, r)
    \/ \E i \in DOMAIN calls : CallbackSucceeded(i)
    \/ \E i \in DOMAIN calls : CallbackFailed(i)
    \/ NavigateLogin
    \/ SignoutRedirect
    \/ ApiRequest
    \/ \E st \in ApiStatuses : ApiRespond(st)

ApiSpec == Init /\ [][ApiNext]_vars

LogSpec == Init /\ [][LogNext]_vars

(***************************************************************************)
(* The singleton logger with a timer that never stops: setInterval keeps   *)
(* firing every 5 s and every POST settles (with a response, a network     *)
(* error, or at the latest when AbortSignal.timeout(3000) aborts it).      *)
(***************************************************************************)
LiveLog ==
    /\ logCount < MaxLiveLogs
    /\ LogVia(1, NoAttrs, FALSE)

\* a timer tick, not counted
LiveTimerFlush(h) ==
    /\ handlers[h] = "fluentd"
    /\ FlushOnTimer(h)
    /\ UNCHANGED <<settled, consoleOut, logCount, timerFlushes, handlers, loggers, lastLog>>
    /\ UNCHANGED nonLogVars

LogLiveNext ==
    \/ LiveLog
    \/ \E h \in DOMAIN handlers : LiveTimerFlush(h)
    \/ \E b \in inflight : \E o \in PostOutcomes : PostSettles(b, o)

LogLiveSpec ==
    /\ Init
    /\ [][LogLiveNext]_vars
    /\ WF_vars(\E h \in DOMAIN handlers : LiveTimerFlush(h))
    /\ WF_vars(\E b \in inflight : \E o \in PostOutcomes : PostSettles(b, o))

(***************************************************************************)
(* Specification of the Logger class with derived loggers: the singleton,  *)
(* loggers derived from it by withAttrs, log calls through each of them,   *)
(* the timers of the FluentdHandlers and the POST outcomes.                *)
(***************************************************************************)
\* a log call on any logger, with any attributes
LoggerLog ==
    /\ logCount < MaxLoggerLogs
    /\ \E l \in DOMAIN loggers : \E a \in CallAttrs : LogVia(l, a, FALSE)

LoggerNext ==
    \/ LoggerLog
    \/ \E l \in DOMAIN loggers : \E a \in BoundAttrs : WithAttrs(l, a)
    \/ \E h \in DOMAIN handlers : TimerFlush(h)
    \/ \E b \in inflight : \E o \in PostOutcomes : PostSettles(b, o)

LoggerSpec == Init /\ [][LoggerNext]_vars

(***************************************************************************)
(* Specification of a Logger built over a caller-supplied handler, which   *)
(* may throw on any record: new Logger([handler]).                         *)
(***************************************************************************)
HandlerInit ==
    /\ AuthInit
    /\ handlers = LoggerConstructor(<<"custom">>)
    /\ loggers = <<[attrs |-> NoAttrs, parent |-> 0]>>
    /\ logQueue = <<<<>>, <<>>, <<>>>>
    /\ lastLog = [logger |-> 0, result |-> "none"]
    /\ inflight = {}
    /\ settled = {}
    /\ consoleOut = EmptyBag
    /\ logCount = 0
    /\ timerFlushes = 0

\* a log call during which the supplied handler throws or does not
HandlerLog ==
    /\ logCount < MaxHandlerLogs
    /\ \E t \in BOOLEAN : LogVia(1, NoAttrs, t)

HandlerNext ==
    \/ HandlerLog
    \/ \E h \in DOMAIN handlers : TimerFlush(h)
    \/ \E b \in inflight : \E o \in PostOutcomes : PostSettles(b, o)

HandlerSpec == HandlerInit /\ [][HandlerNext]_vars

(***************************************************************************)
(* Properties of the authentication client (checked under AuthSpec).       *)
(***************************************************************************)
StateMismatch == Err("Invalid state parameter", Null)
RequestedIn(cs) == {i \in DOMAIN cs : cs[i].requested}

\* C1 (as stated): every callback whose state parameter differs from the stored
\* state fails with the state-mismatch error and sends no token request.
C1_EveryMismatchIsStateMismatch ==
    \A i \in DOMAIN calls :
        calls[i].url.state # calls[i].snapState =>
            /\ calls[i].error = StateMismatch
            /\ ~calls[i].requested

\* C1 (amended): a callback whose state parameter differs from the stored state
\* (another value, no value, or a value that is no longer stored) always fails
\* and never sends a token request; the failure is the state-mismatch error
\* whenever the callback carries a non-empty code and no non-empty error
\* (otherwise the error / missing-code failures come first).
C1_MismatchNeverExchanges ==
    \A i \in DOMAIN calls :
        calls[i].url.state # calls[i].snapState =>
            /\ calls[i].pc \in {"rejected", "failed"}
            /\ calls[i].error # NoErr
            /\ ~calls[i].requested
            /\ RequestedIn(calls) = {}
            /\ (Truthy(calls[i].url.code) /\ ~Truthy(calls[i].url.error) =>
                    calls[i].error = StateMismatch)

C1_Witness ==
    \E i \in DOMAIN calls :
        /\ calls[i].snapState \in StateTokens
        /\ calls[i].url.state \in StateTokens
        /\ calls[i].url.state # calls[i].snapState
        /\ Truthy(calls[i].url.code) /\ ~Truthy(calls[i].url.error)
        /\ calls[i].pc = "failed"
        /\ calls[i].error = StateMismatch

C3_RehandlingKeepsSession ==
    [][ ( /\ page = "callback" /\ page' = "callback"
          /\ url \in handledOk /\ url' = url
          /\ calls' # calls /\ calls' # <<>> )
        => ( /\ user' = user
             /\ localStorage' = localStorage
             /\ Cardinality(RequestedIn(calls')) = Cardinality(RequestedIn(calls)) ) ]_vars

\* C4: a session exists (in durable storage, and in memory on every app page)
\* exactly when a code exchange succeeded since the last logout / clearSession.
C4_SessionIffExchanged ==
    /\ exchanged <=> (localStorage # None)
    /\ page \in AppPages => (exchanged <=> (user # None))

C4_Witness ==
    /\ page = "dashboard"
    /\ exchanged
    /\ user # None
    /\ lastOp = "openPage"

\* C5: when the callback carries a code and the stored state and the token
\* endpoint answers success, completeLogin returns the answered session (with
\* its access token); the session is in memory and in durable storage, the
\* verifier and the state are erased, and isAuthenticated() is true.
C5_HappyPath ==
    \A i \in DOMAIN calls :
        calls[i].pc = "resolved" =>
            /\ Truthy(calls[i].url.code)
            /\ calls[i].url.state = calls[i].snapState
            /\ Truthy(calls[i].snapVerifier)
            /\ lastResponse # None
            /\ calls[i].result = lastResponse[1].body
            /\ user = calls[i].result
            /\ Constructor(localStorage) = calls[i].result
            /\ ssVerifier = Null
            /\ ssState = Null
            /\ IsAuthenticated

C5_Witness ==
    \E i \in DOMAIN calls :
        /\ calls[i].pc = "resolved"
        /\ calls[i].snapState \in StateTokens
        /\ calls[i].result # None
        /\ calls[i].result[1].access_token = "tok1"

\* the error message the precedence of the claim asks for; Null when the
\* callback passes all four checks
ExpectedFailure(absent, u, storedState, storedVerifier) ==
    IF u.error \notin absent THEN "Authorization error"
    ELSE IF u.code \in absent THEN "No authorization code received"
    ELSE IF u.state # storedState THEN "Invalid state parameter"
    ELSE IF storedVerifier = Null THEN "No code verifier found"
    ELSE Null

Classified(absent) ==
    \A i \in DOMAIN calls :
        LET expected == ExpectedFailure(absent, calls[i].url, calls[i].snapState,
                                        calls[i].snapVerifier)
        IN IF expected = Null
           THEN calls[i].requested
           ELSE /\ ~calls[i].requested
                /\ calls[i].error.msg = expected
                /\ (expected = "Authorization error" =>
                        calls[i].error.arg = calls[i].url.error)

\* C6 (as stated): AuthorizationDenied whenever the error parameter is present,
\* else MissingCode when no code is present, else StateMismatch, else
\* MissingVerifier; none of the four sends a token request.
C6_PrecedenceWhenPresent == Classified({Null})

\* C6 (amended): the same precedence, where "present" means present with a
\* non-empty value: an empty error parameter is ignored and an empty code
\* counts as no code.
C6_PrecedenceWhenNonEmpty == Classified({Null, ""})

C6_Witness ==
    \E i \in DOMAIN calls :
        /\ Truthy(calls[i].url.error) /\ Truthy(calls[i].url.code)
        /\ calls[i].url.state = calls[i].snapState /\ Truthy(calls[i].snapVerifier)
        /\ calls[i].pc = "failed"
        /\ calls[i].error = Err("Authorization error", calls[i].url.error)

\* C7: a non-success HTTP answer of the token endpoint makes completeLogin fail
\* with the server's error code, and the session in memory and in durable
\* storage is what it was before the call.
C7_NonSuccessFails ==
    \A i \in DOMAIN calls :
        ( /\ lastOp = "completeLoginErr"
          /\ calls[i].pc = "rejected"
          /\ calls[i].requested
          /\ lastResponse[1].status # 0 )
        => /\ lastResponse[1].status \notin 200..299
           /\ calls[i].error # NoErr
           /\ (Truthy(lastResponse[1].error) => calls[i].error.msg = lastResponse[1].error)
           /\ calls[i].result = None
           /\ user = calls[i].userBefore
           /\ localStorage = calls[i].storedBefore

C7_Witness ==
    \E i \in DOMAIN calls :
        /\ lastOp = "completeLoginErr"
        /\ calls[i].pc = "rejected"
        /\ lastResponse[1].status = 400
        /\ calls[i].error.msg = "invalid_grant"
        /\ calls[i].userBefore # None

\* C8: the verifier and the state are stored and erased together: storage
\* never holds one without the other; beginLogin leaves both stored, unchanged
\* if both were stored before; a successful completeLogin, logout and
\* clearSession erase both.
C8_PairTogether ==
    /\ []((ssVerifier = Null) <=> (ssState = Null))
    /\ [][ /\ (lastOp' = "beginLogin" =>
                 /\ ssVerifier' # Null /\ ssState' # Null
                 /\ (ssVerifier # Null /\ ssState # Null =>
                        ssVerifier' = ssVerifier /\ ssState' = ssState))
           /\ (lastOp' \in {"completeLoginOk", "logout", "clearSession", "clearSession401"} =>
                 ssVerifier' = Null /\ ssState' = Null) ]_vars

C8_Witness ==
    /\ lastOp = "beginLogin"
    /\ pairReused
    /\ ssVerifier # Null /\ ssState # Null

(***************************************************************************)
(* Properties of the stored session.                                       *)
(***************************************************************************)
\* the operations that load a page of the app and so construct the service
PageLoads == {"openPage", "openCallback", "callbackSucceeded"}

C17_NoTokenInLocalStorage ==
    localStorage # None =>
        \/ "access_token" \notin DOMAIN localStorage[1]
        \/ ~Truthy(localStorage[1].access_token)

\* C18 (as stated): isAuthenticated() is true exactly when a session exists
\* and its access token is a non-empty string.
C18_AuthenticatedIffToken ==
    page \in AppPages =>
        (IsAuthenticated <=> (GetUser # None /\ Truthy(GetUser[1].access_token)))

\* C20: on a page just loaded over a stored session, getSession() returns the
\* session the last successful completeLogin persisted, equal field by field.
C20_ReloadRoundTrip ==
    (lastOp \in PageLoads /\ localStorage # None) =>
        /\ lastResponse # None
        /\ lastResponse[1].status = 200
        /\ GetUser # None
        /\ \A f \in AuthUserFields : GetUser[1][f] = lastResponse[1].body[1][f]

C20_Witness ==
    /\ lastOp = "openPage"
    /\ page = "dashboard"
    /\ GetUser # None
    /\ GetUser[1].access_token = "tok1"
    /\ GetUser[1].expires_in = 3600
    /\ GetUser[1].scope = "openid"

FallbackPrints(rec) == CopiesIn(ConsoleEntry(rec, "fallback"), consoleOut)
FallbackPrintsOfId(id) ==
    BagCardinality([e \in {x \in BagToSet(consoleOut) : x.via = "fallback" /\ x.id = id}
                      |-> consoleOut[e]])

\* C9: after a POST failed with a network error every record of its batch was
\* printed by the console fallback once, with its level and message; no record
\* of it is back on the queue or part of any other batch.
C9_NetworkErrorFallsBackOnce ==
    \A s \in settled :
        s.outcome.kind = "network-error" =>
            \A rec \in Records(s.batch) :
                /\ \E e \in BagToSet(consoleOut) :
                      /\ e.via = "fallback" /\ e.id = rec.id
                      /\ e.level = rec.level /\ e.msg = rec.msg
                      /\ consoleOut[e] = 1
                /\ FallbackPrintsOfId(rec.id) = 1
                /\ rec \notin Records(logQueue[s.h])
                /\ \A b \in Drained(s.h) : b.n # s.n => rec \notin Records(b.batch)

C9_Witness ==
    \E s \in settled :
        /\ s.outcome.kind = "network-error"
        /\ Len(s.batch) >= 2
        /\ \E t \in settled : t.h = s.h /\ t.n > s.n

\* C10 (as stated): after a POST completed with a non-2xx status every record
\* of its batch was printed by the console fallback.
C10_NonSuccessStatusFallsBack ==
    \A s \in settled :
        (s.outcome.kind = "response" /\ s.outcome.status \notin 200..299) =>
            \A rec \in Records(s.batch) : FallbackPrints(rec) >= 1

\* the ids of the records of a queue or batch, in order
Ids(batch) == [k \in DOMAIN batch |-> batch[k].id]
\* the sequence <<a, a+1, ..., b>>
FromTo(a, b) == [k \in 1..(b - a + 1) |-> a + k - 1]

\* C12: starting from the empty queue and before the timer finds anything to
\* flush, up to nine log calls start no POST and leave their records queued,
\* and the tenth starts exactly one POST, which holds those ten records; in
\* every state a log call starts a POST exactly when its record is the tenth
\* of the queue.
C12_TenthCallFlushesOnce ==
    /\ [](timerFlushes = 0 =>
             IF logCount < batchSize
             THEN /\ Drained(1) = {}
                  /\ Ids(logQueue[1]) = FromTo(1, logCount)
             ELSE /\ \E b \in Drained(1) :
                        /\ Drained(1) = {b}
                        /\ Ids(b.batch) = FromTo(1, batchSize)
                  /\ Ids(logQueue[1]) = FromTo(batchSize + 1, logCount))
    /\ [][logCount' = logCount + 1 =>
             IF Len(logQueue[1]) = batchSize - 1
             THEN /\ logQueue'[1] = <<>>
                  /\ \E b \in inflight' :
                        /\ inflight' = inflight \cup {b}
                        /\ b \notin inflight
                        /\ Len(b.batch) = batchSize
                        /\ SubSeq(b.batch, 1, batchSize - 1) = logQueue[1]
             ELSE /\ inflight' = inflight
                  /\ Len(logQueue'[1]) = Len(logQueue[1]) + 1]_vars
    /\ [][timerFlushes' = timerFlushes + 1 =>
             /\ Len(logQueue[1]) \in 1..(batchSize - 1)
             /\ logQueue'[1] = <<>>
             /\ \E b \in inflight' :
                   inflight' = inflight \cup {b} /\ b \notin inflight /\ b.batch = logQueue[1]]_vars

C12_Witness ==
    /\ timerFlushes = 0
    /\ logCount = batchSize
    /\ logQueue[1] = <<>>
    /\ \E s \in settled : Len(s.batch) = batchSize

\* the batches of handler h in the order they were taken off its queue
RECURSIVE DrainedUpTo(_, _)
DrainedUpTo(h, k) ==
    IF k = 0 THEN <<>>
    ELSE DrainedUpTo(h, k - 1) \o (CHOOSE b \in Drained(h) : b.n = k).batch

\* C15: the records of every batch are in the order of their log calls, and
\* the batches taken off the queue, in that order, followed by what is still
\* queued, are the log calls made so far in call order, none missing and none
\* twice.
C15_CallOrderKept ==
    /\ \A k \in 1..Cardinality(Drained(1)) : \E b \in Drained(1) : b.n = k
    /\ \A b \in Drained(1) : \A i, j \in DOMAIN b.batch :
          i < j => b.batch[i].id < b.batch[j].id
    /\ Ids(DrainedUpTo(1, Cardinality(Drained(1))) \o logQueue[1]) = FromTo(1, logCount)

C15_Witness ==
    /\ Cardinality(Drained(1)) >= 2
    /\ \A b \in Drained(1) : Len(b.batch) >= 2
    /\ \E s \in settled : s.n = 2 /\ \E b \in inflight : b.n = 1
    /\ Len(logQueue[1]) >= 2

(***************************************************************************)
(* Liveness of the log shipper (checked under LogLiveSpec).                *)
(***************************************************************************)
Queued(id) == \E rec \in Records(logQueue[1]) : rec.id = id
\* the POST of the record's batch resolved, or it was rejected and the record
\* was printed by the console fallback
PostedOrPrinted(id) ==
    \E s \in settled :
        /\ \E rec \in Records(s.batch) : rec.id = id
        /\ s.outcome.kind # "response" => FallbackPrintsOfId(id) >= 1

\* C16: while the timer keeps firing and every POST settles, every queued
\* record eventually is off the queue and either POSTed or printed by the
\* console fallback, and every flush that started its POST finishes.
C16_EveryRecordLeaves ==
    /\ \A id \in 1..MaxLiveLogs :
          Queued(id) ~> (~Queued(id) /\ PostedOrPrinted(id))
    /\ \A k \in 1..MaxLiveLogs :
          (\E b \in inflight : b.n = k) ~> (\E s \in settled : s.n = k)

C16_Witness ==
    /\ logQueue[1] = <<>>
    /\ inflight = {}
    /\ Cardinality(settled) > MaxTimerFlushes
    /\ \E s \in settled : s.outcome.kind = "timeout" /\ PostedOrPrinted(s.batch[1].id)
    /\ \E s \in settled : s.outcome.kind = "response"

(***************************************************************************)
(* Properties of the Logger class (checked under LoggerSpec, and under     *)
(* HandlerSpec where a handler throws).                                    *)
(***************************************************************************)
\* every POST started so far, by any handler
Posts == UNION {Drained(h) : h \in DOMAIN handlers}
PostsWith(id) == {b \in Posts : \E rec \in Records(b.batch) : rec.id = id}

\* C11 (as stated): after any sequence of log calls, withAttributes calls,
\* flushes and POST outcomes, the record of one log call is part of at most
\* one POST.
C11_AtMostOnePost ==
    \A id \in 1..logCount : Cardinality(PostsWith(id)) <= 1

\* how many FluentdHandler queues received the record of log call id: a record
\* is either still queued or part of the one batch that took it off the queue
QueueDeliveries(id) ==
    Cardinality({h \in DOMAIN handlers : \E rec \in Records(logQueue[h]) : rec.id = id})
    + Cardinality(PostsWith(id))
\* how many ConsoleHandlers of the array printed the record of log call id
HandlerPrints(id) ==
    BagCardinality([e \in {x \in BagToSet(consoleOut) : x.via = "handler" /\ x.id = id}
                      |-> consoleOut[e]])
DerivedFrom(l) == {d \in DOMAIN loggers : loggers[d].parent = l}

\* C13 (as stated): whatever withAttributes calls were made on the logger
\* first constructed, a record logged through it carries none of the derived
\* attributes and goes to the handlers that logger was built with, once each:
\* one FluentdHandler queue and one ConsoleHandler.
C13_ParentUnchanged ==
    (lastLog.logger = 1 /\ DerivedFrom(1) # {}) =>
        /\ \A h \in DOMAIN handlers : \A rec \in Records(logQueue[h]) :
              rec.id = logCount =>
                  \A d \in DerivedFrom(1) : rec.attrs \cap loggers[d].attrs = {}
        /\ QueueDeliveries(logCount) = 1
        /\ HandlerPrints(logCount) = 1

C21_LogoutAndClearErase ==
    [][ /\ (lastOp' \in {"logout", "clearSession", "clearSession401"} =>
              /\ GetUser' = None
              /\ localStorage' = None
              /\ ssVerifier' = Null /\ ssState' = Null
              /\ ~IsAuthenticated'
              /\ GetAccessToken' = Null)
        /\ (lastOp' = "logout" => page' = "logout" /\ page \in AppPages)
        /\ (lastOp' = "clearSession" => page' = page /\ url' = url) ]_vars

C21_Witness ==
    /\ lastOp = "logout"
    /\ page = "logout"
    /\ handledOk # {}
    /\ lastResponse # None /\ lastResponse[1].status = 200
    /\ localStorage = None /\ ssVerifier = Null /\ ssState = Null

(***************************************************************************)
(* Properties of the CRUD API wrapper (checked under ApiSpec).             *)
(***************************************************************************)
\* C22: a request sent while a session with an access token exists carries
\* Authorization: Bearer <the access token of that session>, which is also
\* the one in durable storage; a request sent while no session exists (none
\* in memory, none in durable storage) carries no Authorization header.
C22_BearerIffSession ==
    [][ lastOp' = "apiRequest" =>
          /\ apiCall'.pc = "sent"
          /\ (GetUser # None /\ Truthy(GetUser[1].access_token)) =>
                /\ apiCall'.authorization = Some(<<"Bearer", GetUser[1].access_token>>)
                /\ localStorage # None
                /\ localStorage[1].access_token = GetUser[1].access_token
          /\ (GetUser = None \/ localStorage = None) =>
                apiCall'.authorization = None ]_vars

C22_Witness ==
    /\ lastOp = "apiRequest"
    /\ page = "dashboard"
    /\ apiCall.pc = "sent"
    /\ apiCall.authorization = Some(<<"Bearer", "tok1">>)

\* C23: when a call is answered with 401, the session is gone from memory and
\* durable storage, verifier and state are gone from short-lived storage,
\* the user agent is on /login, and the call is rejected with the error of
\* that answer.
C23_UnauthorizedClearsAndFails ==
    [][ (apiCall.pc = "sent" /\ apiCall'.pc # "sent" /\ apiCall'.status = 401) =>
          /\ GetUser' = None
          /\ localStorage' = None
          /\ ssVerifier' = Null /\ ssState' = Null
          /\ page' = "login"
          /\ apiCall'.pc = "rejected"
          /\ apiCall'.error = Some([status |-> 401]) ]_vars

C23_Witness ==
    /\ lastOp = "clearSession401"
    /\ apiCall.pc = "rejected"
    /\ apiCall.status = 401
    /\ apiCall.authorization = Some(<<"Bearer", "tok1">>)
    /\ page = "login"
    /\ GetUser = None /\ localStorage = None


(***************************************************************************)
(* Specification of the random string generator: generatePKCE and          *)
(* generateState each call generateRandomString, whose loop appends one    *)
(* character per random byte.                                              *)
(***************************************************************************)
GenerateRandomString(what, length) ==
    /\ gen.pc \in {"idle", "returned"}
    /\ gen' = [what |-> what, length |-> length, len |-> 0, char |-> "", pc |-> "loop"]
    /\ UNCHANGED <<authVars, logVars>>

GeneratePKCE == GenerateRandomString("verifier", VerifierLength)

GenerateState == GenerateRandomString("state", StateLength)

\* one iteration of the loop: result += charset[randomValues[i] % charset.length]
AppendChar ==
    /\ gen.pc = "loop"
    /\ gen.len < gen.length
    /\ \E byte \in RandomBytes :
          gen' = [gen EXCEPT !.len = @ + 1, !.char = CharAt(byte)]
    /\ UNCHANGED <<authVars, logVars>>

\* the loop condition i < length fails: return result
ReturnString ==
    /\ gen.pc = "loop"
    /\ ~(gen.len < gen.length)
    /\ gen' = [gen EXCEPT !.pc = "returned"]
    /\ UNCHANGED <<authVars, logVars>>

GenNext ==
    \/ GeneratePKCE
    \/ GenerateState
    \/ AppendChar
    \/ ReturnString

GenSpec == Init /\ [][GenNext]_vars

(***************************************************************************)
(* Properties of the generated verifier and state (checked under GenSpec). *)
(***************************************************************************)
\* the unreserved characters of RFC 3986: ALPHA / DIGIT / "-" / "." / "_" / "~"
Unreserved ==
    {"A", "B", "C", "D", "E", "F", "G", "H", "I", "J", "K", "L", "M",
     "N", "O", "P", "Q", "R", "S", "T", "U", "V", "W", "X", "Y", "Z",
     "a", "b", "c", "d", "e", "f", "g", "h", "i", "j", "k", "l", "m",
     "n", "o", "p", "q", "r", "s", "t", "u", "v", "w", "x", "y", "z",
     "0", "1", "2", "3", "4", "5", "6", "7", "8", "9", "-", ".", "_",
     "~"}

\* C24: every character appended to a generated string is an unreserved
\* character; a returned code verifier has exactly 128 characters, which lies
\* within 43..128, and a returned state token has exactly 32 characters.
C24_VerifierAndStateShape ==
    /\ (gen.len > 0 => gen.char \in Unreserved)
    /\ (gen.pc = "returned" /\ gen.what = "verifier" =>
          gen.len = 128 /\ gen.len \in 43..128)
    /\ (gen.pc = "returned" /\ gen.what = "state" => gen.len = 32)

\* a verifier has been returned whose last character is the last of the charset
C24_Witness ==
    /\ gen.pc = "returned"
    /\ gen.what = "verifier"
    /\ gen.len = 128
    /\ gen.char = "~"



(***************************************************************************)
(* Further properties of the log shipper (checked under LogSpec).          *)
(***************************************************************************)
\* every position of every batch taken off a queue so far
Slots == UNION {{<<b, i>> : i \in DOMAIN b.batch} : b \in inflight \cup settled}

\* C25: a flush takes its batch and resets the queue in the same step: the
\* batch taken is the whole queue of that moment (with the record being logged,
\* when a log call flushes) and the queue is empty right after; a batch never
\* changes once taken, so a record logged later is in none of the earlier
\* batches and sits in the queue or in a batch of its own flush; every record
\* logged so far sits in exactly one place, a drained batch or the queue (the
\* batches and the queue hold as many records as were logged, and every one
\* of them is there).
C25_DrainAndResetAtomic ==
    /\ [](/\ Cardinality(Slots) + Len(logQueue[1]) = logCount
          /\ {s[1].batch[s[2]].id : s \in Slots} \cup {r.id : r \in Records(logQueue[1])}
                = 1..logCount)
    /\ [][
           /\ \A b \in inflight' \ inflight :
                 /\ logQueue'[b.h] = <<>>
                 /\ IF logCount' = logCount
                    THEN b.batch = logQueue[b.h]
                    ELSE Ids(b.batch) = Ids(logQueue[b.h]) \o <<logCount'>>
           /\ \A b \in inflight :
                 \/ b \in inflight'
                 \/ \E s \in settled' \ settled :
                       s.h = b.h /\ s.n = b.n /\ s.batch = b.batch
           /\ settled \subseteq settled'
           /\ logCount' = logCount + 1 =>
                 /\ \A b \in inflight \cup settled :
                       \A i \in DOMAIN b.batch : b.batch[i].id # logCount'
                 /\ \/ logQueue'[1] = <<>>
                    \/ Ids(logQueue'[1]) = Ids(logQueue[1]) \o <<logCount'>>
       ]_vars

\* two flushes are in flight and a record logged after both sits alone in the
\* fresh queue
C25_Witness ==
    /\ Cardinality({b \in inflight : b.h = 1}) = 2
    /\ Len(logQueue[1]) = 1
    /\ logQueue[1][1].id = logCount
    /\ \A b \in inflight : \A i \in DOMAIN b.batch : b.batch[i].id < logCount


\* C30: in every state, which is to say whenever no log call is running, the
\* queue holds fewer than batchSize records; during a log call it holds one
\* record more than before, which is at most batchSize, and the call leaves
\* it either with that record added or empty.
C30_QueueBounded ==
    /\ [](Len(logQueue[1]) < batchSize)
    /\ [][logCount' = logCount + 1 =>
              /\ Len(logQueue[1]) + 1 <= batchSize
              /\ Len(logQueue'[1]) =
                    IF Len(logQueue[1]) + 1 = batchSize THEN 0 ELSE Len(logQueue[1]) + 1]_vars

\* after an earlier flush the queue has filled up to one record below the
\* batch size and the last log call has returned
C30_Witness ==
    /\ Len(logQueue[1]) = batchSize - 1
    /\ Drained(1) # {}
    /\ lastLog.result = "returned"
    /\ logQueue[1][batchSize - 1].id = logCount


(***************************************************************************)
(* Further properties of the callback and of beginLogin (AuthSpec).        *)
(***************************************************************************)
\* the step in which the Callback component handles the rejection of call i
CallbackFails(i) ==
    /\ i \in DOMAIN calls
    /\ calls[i].pc = "rejected"
    /\ calls'[i].pc = "failed"

\* C26: whatever made the callback fail, the step that handles the failure
\* leaves no session in memory or in localStorage and no verifier or state in
\* sessionStorage, with no beginLogin suspended; from then on no step other
\* than a beginLogin stores a verifier or a state, a beginLogin that starts
\* with nothing stored reads nothing, and a beginLogin that read nothing
\* stores a fresh pair and navigates with it.
C26_FailureBackToIdle ==
    /\ [][\A i \in DOMAIN calls : CallbackFails(i) =>
              /\ GetUser' = None
              /\ ~IsAuthenticated'
              /\ localStorage' = None
              /\ ssVerifier' = Null /\ ssState' = Null
              /\ loginPc' = "idle"]_vars
    /\ [][(lastOp' # "beginLogin" /\ ssVerifier = Null /\ ssState = Null) =>
              (ssVerifier' = Null /\ ssState' = Null)]_vars
    /\ [][(lastOp' = "beginLoginStart" /\ ssVerifier = Null /\ ssState = Null) =>
              loginLocals' = [codeVerifier |-> Null, state |-> Null]]_vars
    /\ [][(lastOp' = "beginLogin" /\ loginLocals.codeVerifier = Null) =>
              /\ ~pairReused'
              /\ ssVerifier' \in Verifiers /\ ssState' \in StateTokens
              /\ authUrl' = [state |-> ssState', code_challenge |-> Challenge(ssVerifier')]]_vars

\* a callback that found a stored pair and a session was rejected by the token
\* endpoint, and its failure has been handled
C26_Witness ==
    \E i \in DOMAIN calls :
        /\ calls[i].pc = "failed"
        /\ calls[i].requested
        /\ calls[i].snapVerifier \in Verifiers
        /\ calls[i].error.msg # Null
        /\ ssVerifier = Null /\ ssState = Null
        /\ user = None /\ localStorage = None


\* how many = end the text
Padding(str) == Cardinality({i \in DOMAIN str : \A j \in i..Len(str) : str[j] = "="})

\* base64url without padding of a base64 text, character by character
Base64Url(str) ==
    Join([i \in 1..(Len(str) - Padding(str)) |->
             CASE str[i] = "+" -> "-"
               [] str[i] = "/" -> "_"
               [] OTHER -> str[i]])

\* C27: every navigation of beginLogin to the authorization endpoint, on the
\* fresh path and on the reuse path, happens with a verifier and a state in
\* sessionStorage, carries as code_challenge the unpadded base64url of the
\* SHA-256 of that verifier and as state that state; every token request
\* sends the verifier sessionStorage holds, which is the one whose challenge
\* the last authorization URL carried.
C27_ChallengeMatchesStoredVerifier ==
    /\ [][lastOp' = "beginLogin" =>
              /\ page' = "authorize"
              /\ ssVerifier' \in Verifiers
              /\ ssState' \in StateTokens
              /\ authUrl'.code_challenge = Base64Url(Sha256Base64(ssVerifier'))
              /\ authUrl'.state = ssState'
              /\ pairReused' => (ssVerifier' = ssVerifier /\ ssState' = ssState)]_vars
    /\ [][\A i \in DOMAIN calls' :
              (i \notin DOMAIN calls /\ calls'[i].requested) =>
                  /\ calls'[i].code_verifier = ssVerifier
                  /\ ssVerifier \in Verifiers
                  /\ authUrl.code_challenge = Base64Url(Sha256Base64(calls'[i].code_verifier))]_vars

\* the reuse path was taken and the token request of the callback that
\* followed has sent the stored verifier
C27_Witness ==
    /\ pairReused
    /\ \E i \in DOMAIN calls :
          /\ calls[i].requested
          /\ calls[i].code_verifier = "v2"
          /\ authUrl.code_challenge = "Z_--w"


\* C28: a token request is started only by a callback whose URL carries a
\* state parameter, while sessionStorage holds a state, the two being equal;
\* and no call whose URL has no state parameter has sent a token request.
C28_RequestNeedsMatchingState ==
    /\ [][\A i \in DOMAIN calls' :
              (i \notin DOMAIN calls /\ calls'[i].requested) =>
                  /\ url.state # Null
                  /\ ssState # Null
                  /\ url.state = ssState
                  /\ calls'[i].url = url]_vars
    /\ [](\A i \in DOMAIN calls :
              calls[i].url.state = Null =>
                  (~calls[i].requested /\ calls[i].pc \in {"rejected", "failed"}))

\* after a completed login a callback with a code and no state parameter met
\* an empty sessionStorage, passed the state comparison and was stopped by the
\* missing verifier
C28_Witness ==
    \E i \in DOMAIN calls :
        /\ calls[i].url.state = Null
        /\ Truthy(calls[i].url.code)
        /\ calls[i].snapState = Null
        /\ calls[i].userBefore # None
        /\ calls[i].error.msg = "No code verifier found"
        /\ ~calls[i].requested


(***************************************************************************)
(* Derived loggers (checked under LoggerSpec).                             *)
(***************************************************************************)
\* the attributes bound along the chain of withAttrs calls that led to logger
\* l, a later call overriding an earlier one on equal keys
RECURSIVE MergedAttrs(_)
MergedAttrs(l) ==
    IF l = 0 THEN NoAttrs
    ELSE Spread(MergedAttrs(loggers[l].parent), loggers[l].attrs)

\* C29 (as stated): the record of the last log call, made on logger l, carries
\* the attributes bound along the whole chain of withAttrs calls that led to
\* l, overridden by the attributes of the log call itself.
C29_AttrsCompose ==
    \A h \in DOMAIN handlers : \A rec \in Records(logQueue[h]) :
        (lastLog.logger # 0 /\ rec.id = logCount) =>
            \E a \in CallAttrs : rec.attrs = Spread(MergedAttrs(lastLog.logger), a)

====
